---------------------------- MODULE Spec2Model ----------------------------
(***************************************************************************)
(* Model of src/src/App.js: the App component's state (prompt, imageUrl,   *)
(* loading), its event handlers, the timers they schedule, and the render  *)
(* pass run by the deferred callback of generateImage (palette selection,  *)
(* arc layout, straight layout with word wrap, export).                    *)
(*                                                                         *)
(* Numbers that are IEEE doubles in the program are exact rationals here   *)
(* (records [n, d], d = 0 standing for NaN and the infinities), so that an *)
(* equality of the model is an equality "within floating-point tolerance"  *)
(* of the program.  Strings are sequences of one-character strings.  The   *)
(* theme toggle and the download handler change none of this state and are *)
(* left out.                                                               *)
(***************************************************************************)
EXTENDS Integers, Sequences, FiniteSets, TLC

VARIABLES prompt, imageUrl, loading, timers, canvas, lastOp

vars == <<prompt, imageUrl, loading, timers, canvas, lastOp>>

-----------------------------------------------------------------------------
(* Numbers                                                                 *)

Abs(x) == IF x < 0 THEN -x ELSE x

Sign(x) == IF x < 0 THEN -1 ELSE IF x > 0 THEN 1 ELSE 0

RECURSIVE GCD(_, _)
GCD(a, b) == IF b = 0 THEN a ELSE GCD(b, a % b)

\* A number n/d in lowest terms with d >= 0; d = 0 holds NaN (n = 0) and
\* +/-Infinity (n = +/-1), the results of JavaScript's division by zero.
Rat(n, d) ==
    IF d = 0 THEN [n |-> Sign(n), d |-> 0]
    ELSE LET g == GCD(Abs(n), Abs(d))
         IN  [n |-> Sign(d) * (n \div g), d |-> Abs(d) \div g]

I2R(i) == [n |-> i, d |-> 1]

NaN == [n |-> 0, d |-> 0]

IsNaN(a) == a.n = 0 /\ a.d = 0

IsFinite(a) == a.d # 0

RAdd(a, b) == Rat(a.n * b.d + b.n * a.d, a.d * b.d)

RNeg(a) == [n |-> -a.n, d |-> a.d]

RSub(a, b) == RAdd(a, RNeg(b))

RMul(a, b) == Rat(a.n * b.n, a.d * b.d)

RDiv(a, b) == Rat(a.n * b.d, a.d * b.n)

RLt(a, b) == a.n * b.d < b.n * a.d

RLe(a, b) == a.n * b.d <= b.n * a.d /\ ~IsNaN(a) /\ ~IsNaN(b)

\* Math.max and Math.min: NaN if an argument is NaN.
MathMax(a, b) == IF IsNaN(a) \/ IsNaN(b) THEN NaN ELSE IF RLt(a, b) THEN b ELSE a

MathMin(a, b) == IF IsNaN(a) \/ IsNaN(b) THEN NaN ELSE IF RLt(b, a) THEN b ELSE a

\* Math.floor of a finite number, as an integer.
MathFloor(a) == IF a.n >= 0 THEN a.n \div a.d ELSE -((-a.n + a.d - 1) \div a.d)

\* Math.round: the nearest integer, halves rounded up.
MathRound(a) == MathFloor(RAdd(a, Rat(1, 2)))

\* Math.PI, as the rational 22/7.
MathPI == Rat(22, 7)

-----------------------------------------------------------------------------
(* Strings                                                                 *)

SPACE == " "

\* "z" stands for a character that is not white space and measures zero
\* width (U+200B, a combining mark).
Alphabet == {SPACE, "a", "W", "z"}

RECURSIVE StringsUpTo(_)
StringsUpTo(k) ==
    IF k = 0 THEN {<<>>}
    ELSE LET S == StringsUpTo(k - 1)
         IN  S \cup {Append(s, c) : s \in {t \in S : Len(t) = k - 1}, c \in Alphabet}

\* String.prototype.trim
RECURSIVE TrimStart(_)
TrimStart(s) == IF s # <<>> /\ Head(s) = SPACE THEN TrimStart(Tail(s)) ELSE s

RECURSIVE TrimEnd(_)
TrimEnd(s) ==
    IF s # <<>> /\ s[Len(s)] = SPACE THEN TrimEnd(SubSeq(s, 1, Len(s) - 1)) ELSE s

Trim(s) == TrimEnd(TrimStart(s))

\* s.split(" "): the pieces between single spaces, empty pieces included;
\* the empty string splits to one empty piece.
RECURSIVE SplitFrom(_, _)
SplitFrom(s, piece) ==
    IF s = <<>> THEN <<piece>>
    ELSE IF Head(s) = SPACE THEN <<piece>> \o SplitFrom(Tail(s), <<>>)
    ELSE SplitFrom(Tail(s), Append(piece, Head(s)))

Split(s) == SplitFrom(s, <<>>)

\* s.split(""): one string per character.
Chars(s) == [i \in 1..Len(s) |-> <<s[i]>>]

\* ctx.measureText(s).width under glyph metrics m (a width per character).
RECURSIVE MeasureText(_, _)
MeasureText(m, s) ==
    IF s = <<>> THEN 0 ELSE m[Head(s)] + MeasureText(m, Tail(s))

-----------------------------------------------------------------------------
(* Random Parameter Sampler (lines 29-44).  r is a result of Math.random(), *)
(* a rational in [0, 1).                                                    *)

\* rand(min, max), min and max rationals
rand(min, max, r) == RAdd(RMul(r, RSub(max, min)), min)

\* randInt(min, max), min and max integers
randInt(min, max, r) == MathFloor(rand(I2R(min), I2R(max + 1), r))

\* pickBgColors; rs are its six Math.random() results in call order.
pickBgColors(rs) ==
    LET h1 == randInt(0, 360, rs[1])
        h2 == (h1 + randInt(20, 140, rs[2])) % 360
        s1 == randInt(55, 95, rs[3])
        s2 == randInt(55, 95, rs[4])
        l1 == randInt(25, 60, rs[5])
        l2 == randInt(25, 60, rs[6])
    IN  << [h |-> I2R(h1), s |-> s1, l |-> l1], [h |-> I2R(h2), s |-> s2, l |-> l2] >>

\* (baseHue + randInt(-60, 60) + 360) % 360 on numbers (baseHue may be a half)
HueMod360(x) == RSub(x, I2R(360 * MathFloor(RDiv(x, I2R(360)))))

\* pickTextColorsForBg with the threshold compared with >= instead of >.
pickTextColorsForBgGe(bgColors, n, rs) ==
    LET avgL == Rat(bgColors[1].l + bgColors[2].l, 2)
        baseHue == RDiv(RAdd(bgColors[1].h, bgColors[2].h), I2R(2))
    IN  IF RLe(I2R(55), avgL)
        THEN [i \in 1..n |->
                [h |-> HueMod360(RAdd(RAdd(baseHue, I2R(randInt(-60, 60, rs[i][1]))), I2R(360))),
                 s |-> randInt(40, 85, rs[i][2]),
                 l |-> randInt(8, 35, rs[i][3])]]
        ELSE [i \in 1..n |->
                [h |-> HueMod360(RAdd(RAdd(baseHue, I2R(randInt(-60, 60, rs[i][1]))), I2R(360))),
                 s |-> randInt(45, 95, rs[i][2]),
                 l |-> randInt(68, 98, rs[i][3])]]

\* pickTextColorsForBg (lines 48-70); rs[i] are the three Math.random()
\* results of iteration i.
pickTextColorsForBg(bgColors, n, rs) ==
    LET avgL == Rat(bgColors[1].l + bgColors[2].l, 2)
        baseHue == RDiv(RAdd(bgColors[1].h, bgColors[2].h), I2R(2))
    IN  IF RLt(I2R(55), avgL)
        THEN [i \in 1..n |->
                [h |-> HueMod360(RAdd(RAdd(baseHue, I2R(randInt(-60, 60, rs[i][1]))), I2R(360))),
                 s |-> randInt(40, 85, rs[i][2]),
                 l |-> randInt(8, 35, rs[i][3])]]
        ELSE [i \in 1..n |->
                [h |-> HueMod360(RAdd(RAdd(baseHue, I2R(randInt(-60, 60, rs[i][1]))), I2R(360))),
                 s |-> randInt(45, 95, rs[i][2]),
                 l |-> randInt(68, 98, rs[i][3])]]

-----------------------------------------------------------------------------
(* The render pass: the body of the setTimeout callback of generateImage   *)
(* (lines 144-286), as a function of the prompt the callback closed over   *)
(* and of a draw d: the results of the callback's Math.random() calls, the *)
(* glyph metrics of the rendering surface, and the failure the surface     *)
(* raises, if any.  drawTextOnArc (lines 76-125) and                       *)
(* drawCenteredRotatedText (lines 128-136) are never called: the callback  *)
(* draws with the inline loops modelled here, and no action runs them.     *)

CanvasWidth == 1400

CanvasHeight == 900

NumFonts == 8

\* The canvas right after "canvas.width = width; canvas.height = height":
\* a cleared surface with a default drawing context.  metrics are the glyph
\* widths measureText answers under the context's font.
ClearedCanvas ==
    [bg |-> <<>>, textStops |-> <<>>, fontFamily |-> 0, fontSize |-> 0,
     metrics |-> [c \in Alphabet |-> 0],
     shadowColor |-> "none", shadowBlur |-> 0, strokeStyle |-> "none",
     mode |-> "none", rotateAngle |-> I2R(0), cy |-> I2R(0),
     spacingFactor |-> I2R(0), sumWidth |-> I2R(0), desiredArc |-> I2R(0),
     radius |-> I2R(0), glyphs |-> <<>>, lines |-> <<>>, strokes |-> 0]

\* Lines 154-190: background, text gradient, font, shadow and stroke style.
Palette(d) ==
    LET bg == pickBgColors(d.bg)
        stops == 2 + randInt(0, 1, d.stops)
        textColorObjs == pickTextColorsForBg(bg, stops, d.text)
        denom == IF Len(textColorObjs) - 1 # 0 THEN Len(textColorObjs) - 1 ELSE 1
        fontSize == MathRound(RMul(I2R(randInt(70, 140, d.size)), Rat(12, 10)))
        avgBgL == Rat(bg[1].l + bg[2].l, 2)
        shadowIsLight == RLt(avgBgL, I2R(55))
    IN  [ClearedCanvas EXCEPT
            !.bg = bg,
            !.textStops = [i \in 1..Len(textColorObjs) |->
                             [at |-> Rat(i - 1, denom), color |-> textColorObjs[i]]],
            !.fontFamily = 1 + randInt(0, NumFonts - 1, d.font),
            !.fontSize = fontSize,
            !.metrics = d.metrics,
            !.shadowColor = IF shadowIsLight THEN "rgba(255,255,255,0.25)"
                                             ELSE "rgba(0,0,0,0.35)",
            !.shadowBlur = MathRound(RMul(I2R(fontSize), Rat(12, 100))),
            !.strokeStyle = IF RLt(I2R(55), avgBgL) THEN "rgba(0,0,0,0.45)"
                                                    ELSE "rgba(255,255,255,0.45)"]

RECURSIVE SumSeq(_)
SumSeq(xs) == IF xs = <<>> THEN I2R(0) ELSE RAdd(Head(xs), SumSeq(Tail(xs)))

\* Lines 229-245: the glyph loop from index i with the cursor at curr; one
\* placement per character, in character order.
RECURSIVE ArcLoop(_, _, _, _, _, _)
ArcLoop(chars, adjWidths, radiusComputed, startAngle, i, curr) ==
    IF i > Len(chars) THEN <<>>
    ELSE LET w == adjWidths[i]
             charAngle == RDiv(w, radiusComputed)
             angle == RAdd(RAdd(startAngle, curr), RDiv(charAngle, I2R(2)))
         IN  << [ch |-> chars[i], angle |-> angle, charAngle |-> charAngle,
                 radius |-> radiusComputed] >>
             \o ArcLoop(chars, adjWidths, radiusComputed, startAngle, i + 1,
                        RAdd(curr, charAngle))

\* Lines 203-229: the arc branch up to the glyph loop.
ArcLayout(p, d, fontSize) ==
    LET desiredArc == rand(RMul(MathPI, Rat(55, 100)), RMul(MathPI, Rat(95, 100)), d.arc)
        spacingFactor == IF Len(p) > 20 THEN Rat(114, 100)
                         ELSE rand(Rat(106, 100), Rat(118, 100), d.spacing)
        chars == Chars(p)
        widths == [i \in 1..Len(chars) |-> I2R(MeasureText(d.metrics, chars[i]))]
        adjWidths == [i \in 1..Len(chars) |-> RMul(widths[i], spacingFactor)]
        sumWidth == SumSeq(adjWidths)
        desiredArcClamped ==
            MathMax(MathMin(desiredArc, RMul(MathPI, Rat(15, 10))), RMul(MathPI, Rat(3, 10)))
        radiusComputed ==
            MathMax(RDiv(sumWidth, desiredArcClamped), RMul(I2R(fontSize), Rat(11, 10)))
        startAngle == RDiv(RNeg(desiredArcClamped), I2R(2))
    IN  [cy |-> RSub(Rat(CanvasHeight, 2), rand(I2R(-20), I2R(40), d.cy)),
         spacingFactor |-> spacingFactor,
         sumWidth |-> sumWidth,
         desiredArc |-> desiredArcClamped,
         radius |-> radiusComputed,
         glyphs |-> ArcLoop(chars, adjWidths, radiusComputed, startAngle, 1, I2R(0))]

Join(currentLine, word) == currentLine \o <<SPACE>> \o word

\* Lines 261-270: the wrap loop from word i.
RECURSIVE WrapLoop(_, _, _, _, _, _)
WrapLoop(m, maxWidth, words, i, currentLine, lines) ==
    IF i > Len(words) THEN [currentLine |-> currentLine, lines |-> lines]
    ELSE LET testLine == IF currentLine # <<>> THEN Join(currentLine, words[i])
                         ELSE words[i]
         IN  IF RLt(maxWidth, I2R(MeasureText(m, testLine))) /\ currentLine # <<>>
             THEN WrapLoop(m, maxWidth, words, i + 1, words[i], Append(lines, currentLine))
             ELSE WrapLoop(m, maxWidth, words, i + 1, testLine, lines)

\* WrapLines without the trailing commit of line 271.
WrapLinesNoTrailing(m, p) ==
    WrapLoop(m, RMul(I2R(CanvasWidth), Rat(8, 10)), Split(p), 1, <<>>, <<>>).lines

\* Lines 257-271: maxWidth, the words, the loop and the trailing commit.
WrapLines(m, p) ==
    LET maxWidth == RMul(I2R(CanvasWidth), Rat(8, 10))
        words == Split(p)
        end == WrapLoop(m, maxWidth, words, 1, <<>>, <<>>)
    IN  IF end.currentLine # <<>> THEN Append(end.lines, end.currentLine) ELSE end.lines

\* Lines 273-279: each line with its vertical offset.
StraightLayout(p, d, fontSize) ==
    LET lines == WrapLines(d.metrics, p)
        lineHeight == RMul(I2R(fontSize), Rat(112, 100))
        startY == RDiv(RNeg(RMul(I2R(Len(lines) - 1), lineHeight)), I2R(2))
    IN  [i \in 1..Len(lines) |->
            [text |-> lines[i], y |-> RAdd(startY, RMul(I2R(i - 1), lineHeight))]]

\* The items of the layout (glyphs or lines) drawn before the failure d
\* raises: fillText of item k comes before strokeText of item k, and a
\* strokeText that throws ends the loop (lines 239-241 and 276-278 have no
\* handler of their own).
Drawn(items, d) ==
    IF d.fail = "strokeText" /\ d.failAt <= Len(items)
    THEN [filled |-> SubSeq(items, 1, d.failAt), strokes |-> d.failAt - 1, threw |-> TRUE]
    ELSE [filled |-> items, strokes |-> Len(items), threw |-> FALSE]

\* Lines 199-247: the arc branch on the prepared surface pal, arc being the
\* layout and drawn what the glyph loop painted before any failure.
ArcSurface(pal, rotateAngle, arc, drawn) ==
    [pal EXCEPT !.mode = "arc", !.rotateAngle = rotateAngle,
                !.cy = arc.cy, !.spacingFactor = arc.spacingFactor,
                !.sumWidth = arc.sumWidth, !.desiredArc = arc.desiredArc,
                !.radius = arc.radius,
                !.glyphs = drawn.filled, !.strokes = drawn.strokes]

\* Lines 248-282: the straight branch on the prepared surface pal.
StraightSurface(pal, rotateAngle, drawn) ==
    [pal EXCEPT !.mode = "straight", !.rotateAngle = rotateAngle,
                !.cy = Rat(CanvasHeight, 2),
                !.lines = drawn.filled, !.strokes = drawn.strokes]

\* Lines 231-286 from the draw loop on: the surface the pass leaves and the
\* failure it raised before setImageUrl, "none" if it reached setImageUrl.
Compose(d, surface, drawn) ==
    [surface |-> surface,
     raised |-> IF drawn.threw THEN "strokeText"
                ELSE IF d.fail = "toDataURL" THEN "toDataURL" ELSE "none"]

ArcPass(d, pal, rotateAngle, arc) ==
    Compose(d, ArcSurface(pal, rotateAngle, arc, Drawn(arc.glyphs, d)), Drawn(arc.glyphs, d))

StraightPass(d, pal, rotateAngle, lines) ==
    Compose(d, StraightSurface(pal, rotateAngle, Drawn(lines, d)), Drawn(lines, d))

Layout(p, d, pal) ==
    IF RLt(Rat(35, 100), d.curve)
    THEN ArcPass(d, pal, rand(Rat(-35, 100), Rat(35, 100), d.rot),
                 ArcLayout(p, d, pal.fontSize))
    ELSE StraightPass(d, pal, rand(Rat(-35, 100), Rat(35, 100), d.rot),
                      StraightLayout(p, d, pal.fontSize))

\* The whole callback body (lines 144-286): the surface it leaves and the
\* failure it raised.
RenderPass(p, d) == Layout(p, d, Palette(d))

\* canvas.toDataURL("image/png"): the encoded surface.  The empty URL is <<>>.
toDataURL(surface) == << surface >>

-----------------------------------------------------------------------------
(* Draws: the Math.random() results, glyph metrics and surface failures    *)
(* each specification lets a render pass meet.                             *)

\* Math.random() results: 0, 0.5, 0.75, 0.85 and 0.999.
rLo == Rat(0, 1)

rMid == Rat(1, 2)

r75 == Rat(3, 4)

r85 == Rat(17, 20)

rHi == Rat(999, 1000)

RandomSamples == {rLo, rMid, r85, rHi}

Metrics(space, a, W) == [c \in Alphabet |->
    CASE c = SPACE -> space [] c = "a" -> a [] c = "W" -> W [] OTHER -> 0]

BaseDraw ==
    [bg |-> <<rMid, rMid, rMid, rMid, rMid, rMid>>,
     stops |-> rLo,
     text |-> <<<<rMid, rMid, rMid>>, <<rMid, rMid, rMid>>, <<rMid, rMid, rMid>>>>,
     font |-> rMid, size |-> rMid, curve |-> rMid, rot |-> rMid, arc |-> rMid,
     cy |-> rMid, spacing |-> rMid,
     metrics |-> Metrics(100, 600, 600),
     fail |-> "none", failAt |-> 1]

\* The failure a pass meets: none, the first strokeText call throws, the
\* encoder throws.
Failures ==
    {[fail |-> f, failAt |-> 1] : f \in {"none", "strokeText", "toDataURL"}}

\* The event model: both layouts, every failure.
DrawsUI ==
    {[BaseDraw EXCEPT !.curve = c, !.fail = f.fail, !.failAt = f.failAt] :
        c \in {rLo, rMid}, f \in Failures}

\* The palette: the two background lightness draws, the stop count and the
\* lightness draw of each stop range over the samples.
DrawsColor ==
    {[BaseDraw EXCEPT !.bg = <<rMid, h2, rMid, rMid, l1, l2>>, !.stops = n, !.curve = c,
                      !.text = <<<<rMid, rMid, t1>>, <<rLo, rHi, t2>>, <<rHi, rLo, t3>>>>] :
        h2 \in {rLo, rHi}, l1 \in RandomSamples, l2 \in RandomSamples, n \in {rLo, rMid},
        c \in {rLo, rMid}, t1 \in {rLo, rHi}, t2 \in {rLo, rHi}, t3 \in {rLo, rMid}}

\* The arc layout: font size, arc span, spacing factor and glyph widths.
DrawsArc ==
    {[BaseDraw EXCEPT !.size = sz, !.arc = a, !.spacing = sp, !.metrics = Metrics(ws, wa, wW)] :
        sz \in {rLo, rHi}, a \in {rLo, r75}, sp \in {rLo, rMid},
        ws \in {30}, wa \in {0, 40, 90}, wW \in {40, 120}}

\* The straight layout: glyph widths against maxWidth = 1120.
DrawsStraight ==
    {[BaseDraw EXCEPT !.curve = rLo, !.metrics = Metrics(ws, wa, wW)] :
        ws \in {0, 100}, wa \in {300, 600}, wW \in {600, 1200}}

-----------------------------------------------------------------------------
(* The component: state, handlers, timers.                                 *)

RenderDelay == 120

RegenDelay == 80

\* Time advances in steps of the largest span that divides both delays.
TimeStep == GCD(RenderDelay, RegenDelay)

\* The pending timers a specification allows at once.
MaxTimers == 2

\* The longest prompt of the layout specifications.
MaxLen == 3

\* The prompts the user types in the event model.
UIPrompts == {<<>>, <<SPACE>>, <<"a", SPACE, "W">>}

\* What the last handler did: its name, whether it called generateImage, the
\* prompt it closed over and the failure its render pass raised.
Op(name, gen, p) == [op |-> name, gen |-> gen, p |-> p, raised |-> "none"]

Remove(ts, i) == SubSeq(ts, 1, i - 1) \o SubSeq(ts, i + 1, Len(ts))

\* Timer i is the next of its kind to run: it is due and no timer of the same
\* delay was set before it.
Fireable(ts, i) ==
    /\ ts[i].due = 0
    /\ \A j \in 1..(i - 1) : ts[j].kind # ts[i].kind

\* generateImage without the check of the prompt at line 139.
generateImageUnguarded(p, ts) ==
    /\ loading' = TRUE
    /\ imageUrl' = <<>>
    /\ timers' = Append(ts, [kind |-> "render", due |-> RenderDelay, p |-> p])
    /\ UNCHANGED canvas

\* generateImage (lines 138-143, 292) called by a handler that closed over
\* prompt p, ts being the timers left pending by the caller.
generateImage(p, ts) ==
    IF Trim(p) = <<>>
    THEN /\ timers' = ts
         /\ UNCHANGED <<loading, imageUrl, canvas>>
    ELSE /\ loading' = TRUE
         /\ imageUrl' = <<>>
         /\ timers' = Append(ts, [kind |-> "render", due |-> RenderDelay, p |-> p])
         /\ UNCHANGED canvas

\* input onChange (line 353)
SetPrompt ==
    \E p \in UIPrompts :
        /\ p # prompt
        /\ prompt' = p
        /\ lastOp' = Op("setPrompt", FALSE, p)
        /\ UNCHANGED <<imageUrl, loading, timers, canvas>>

\* Generate button onClick (lines 358-360); a disabled button takes no click.
ClickGenerate ==
    /\ ~(loading \/ Trim(prompt) = <<>>)
    /\ Len(timers) < MaxTimers
    /\ generateImage(prompt, timers)
    /\ lastOp' = Op("clickGenerate", TRUE, prompt)
    /\ UNCHANGED prompt

\* input onKeyDown with the Enter key (line 356)
PressEnter ==
    /\ Trim(prompt) = <<>> \/ Len(timers) < MaxTimers
    /\ generateImage(prompt, timers)
    /\ lastOp' = Op("pressEnter", TRUE, prompt)
    /\ UNCHANGED prompt

\* Regenerate button onClick (lines 390-397); the button is rendered only
\* when loading is false and imageUrl is not empty (lines 379-383).
ClickRegenerate ==
    /\ ~loading
    /\ imageUrl # <<>>
    /\ Len(timers) < MaxTimers
    /\ loading' = TRUE
    /\ timers' = Append(timers, [kind |-> "regen", due |-> RegenDelay, p |-> prompt])
    /\ lastOp' = Op("clickRegenerate", FALSE, prompt)
    /\ UNCHANGED <<prompt, imageUrl, canvas>>

\* The callback of Regenerate's setTimeout (lines 394-396): generateImage of
\* the render the button was clicked in.
RegenTimer ==
    \E i \in 1..Len(timers) :
        /\ timers[i].kind = "regen"
        /\ Fireable(timers, i)
        /\ generateImage(timers[i].p, Remove(timers, i))
        /\ lastOp' = Op("regenTimer", TRUE, timers[i].p)
        /\ UNCHANGED prompt

\* The callback of generateImage's setTimeout (lines 143-292) under a draw
\* of D: try the render pass, setImageUrl on success, finally setLoading(false).
RenderTimer(D) ==
    \E i \in 1..Len(timers) :
        /\ timers[i].kind = "render"
        /\ Fireable(timers, i)
        /\ \E d \in D :
             LET pass == RenderPass(timers[i].p, d)
             IN  /\ canvas' = pass.surface
                 /\ imageUrl' = IF pass.raised # "none" THEN imageUrl
                                 ELSE toDataURL(pass.surface)
                 /\ lastOp' = [Op("renderTimer", FALSE, timers[i].p)
                                  EXCEPT !.raised = pass.raised]
        /\ loading' = FALSE
        /\ timers' = Remove(timers, i)
        /\ UNCHANGED prompt

\* Time passes while no timer is due.
Tick ==
    /\ timers # <<>>
    /\ \A i \in 1..Len(timers) : timers[i].due > 0
    /\ timers' = [i \in 1..Len(timers) |->
                    [timers[i] EXCEPT !.due = timers[i].due - TimeStep]]
    /\ lastOp' = Op("tick", FALSE, <<>>)
    /\ UNCHANGED <<prompt, imageUrl, loading, canvas>>

\* The component after its first render (lines 12-16).
Init ==
    /\ prompt = <<>>
    /\ imageUrl = <<>>
    /\ loading = FALSE
    /\ timers = <<>>
    /\ canvas = ClearedCanvas
    /\ lastOp = Op("init", FALSE, <<>>)

UIRender == RenderTimer(DrawsUI)

Next ==
    \/ SetPrompt
    \/ ClickGenerate
    \/ PressEnter
    \/ ClickRegenerate
    \/ RegenTimer
    \/ UIRender
    \/ Tick

Spec == Init /\ [][Next]_vars

\* A render about to run: generateImage accepted prompt p and its timer is due.
RenderDue(P) ==
    /\ prompt \in P
    /\ imageUrl = <<>>
    /\ loading = TRUE
    /\ timers = << [kind |-> "render", due |-> 0, p |-> prompt] >>
    /\ canvas = ClearedCanvas
    /\ lastOp = Op("tick", FALSE, <<>>)

Accepted(P) == {p \in P : Trim(p) # <<>>}

LongPrompt == [i \in 1..21 |-> IF i = 11 THEN SPACE ELSE "a"]

InitColor == RenderDue({<<"a", SPACE, "W">>})

ColorRender == RenderTimer(DrawsColor)

SpecColor == InitColor /\ [][ColorRender]_vars

InitArc == RenderDue(Accepted(StringsUpTo(MaxLen)) \cup {LongPrompt})

ArcRender == RenderTimer(DrawsArc)

SpecArc == InitArc /\ [][ArcRender]_vars

InitStraight == RenderDue(Accepted(StringsUpTo(MaxLen + 1)))

StraightRender == RenderTimer(DrawsStraight)

SpecStraight == InitStraight /\ [][StraightRender]_vars

-----------------------------------------------------------------------------
(* Properties                                                              *)

Rendered == lastOp.op = "renderTimer"

RECURSIVE Flatten(_)
Flatten(ss) == IF ss = <<>> THEN <<>> ELSE Head(ss) \o Flatten(Tail(ss))

\* The last slice's end: the cursor after the last glyph, from startAngle.
SliceEnd(g) == RAdd(g.angle, RDiv(g.charAngle, I2R(2)))

\* C1: in arc mode the placement angles are non-decreasing in character
\* order and the slice of the last character ends at +A/2, A being the arc
\* span of the pass.
C1_ArcConsumed ==
    (Rendered /\ canvas.mode = "arc") =>
        /\ Len(canvas.glyphs) = Len(lastOp.p)
        /\ \A i \in 1..(Len(canvas.glyphs) - 1) :
              RLe(canvas.glyphs[i].angle, canvas.glyphs[i + 1].angle)
        /\ SliceEnd(canvas.glyphs[Len(canvas.glyphs)]) = RDiv(canvas.desiredArc, I2R(2))

\* Twice the average background lightness of the surface.
AvgLx2 == canvas.bg[1].l + canvas.bg[2].l

\* C2: every text color stop has lightness <= 35 when avgL > 55 and
\* lightness >= 68 when avgL <= 55, and none has lightness in [36, 67]; the
\* stops are two or three.
C2_TextLightnessBands ==
    (Rendered /\ canvas.bg # <<>>) =>
        /\ Len(canvas.textStops) \in {2, 3}
        /\ \A i \in 1..Len(canvas.textStops) :
              LET l == canvas.textStops[i].color.l
              IN  /\ AvgLx2 > 110 => l <= 35
                  /\ AvgLx2 <= 110 => l >= 68
                  /\ l \notin 36..67

\* A pass over a light background (avgL > 55) with three stops, one of them
\* at the band's upper end 35.
C2_Witness ==
    /\ Rendered
    /\ canvas.bg # <<>>
    /\ AvgLx2 > 110
    /\ Len(canvas.textStops) = 3
    /\ \E i \in 1..3 : canvas.textStops[i].color.l = 35

MaxWidth == RMul(I2R(CanvasWidth), Rat(8, 10))

LineWidth(line) == I2R(MeasureText(canvas.metrics, line))

NonEmpty(words) == SelectSeq(words, LAMBDA w : w # <<>>)

\* The words of the committed lines, in order.
LineWords == Flatten([i \in 1..Len(canvas.lines) |-> Split(canvas.lines[i].text)])

\* No committed line is wider than maxWidth unless it is a single word.
C3_LinesFit ==
    \A i \in 1..Len(canvas.lines) :
        \/ RLe(LineWidth(canvas.lines[i].text), MaxWidth)
        \/ Len(Split(canvas.lines[i].text)) = 1

\* C3 as stated: the lines fit and their words, in order, are the words of
\* the prompt, empty words included.
C3_AllWordsKept ==
    (Rendered /\ canvas.mode = "straight") =>
        /\ C3_LinesFit
        /\ LineWords = Split(lastOp.p)

\* C3: in straight mode no committed line is wider than maxWidth unless it is
\* a single word wider than maxWidth, and the non-empty words of the committed
\* lines, in order, are the non-empty words of the prompt.
C3_WordsKept ==
    (Rendered /\ canvas.mode = "straight") =>
        /\ C3_LinesFit
        /\ NonEmpty(LineWords) = NonEmpty(Split(lastOp.p))

\* A wrapped prompt with an empty word: two lines or more, one of them a
\* single word wider than maxWidth.
C3_Witness ==
    /\ Rendered
    /\ canvas.mode = "straight"
    /\ Len(canvas.lines) >= 2
    /\ \E i \in 1..Len(canvas.lines) : RLt(MaxWidth, LineWidth(canvas.lines[i].text))
    /\ \E j \in 1..Len(Split(lastOp.p)) : Split(lastOp.p)[j] = <<>>

\* C4: while a render scheduled by generateImage is pending, loading is true.
C4_PendingImpliesLoading ==
    (\E i \in 1..Len(timers) : timers[i].kind = "render") => loading

\* C5: after a render pass that threw, loading is false and imageUrl is
\* empty.
C5_FailureLeavesNoImage ==
    (Rendered /\ lastOp.raised # "none") => (~loading /\ imageUrl = <<>>)

\* C6: after a render pass in which strokeText failed, every glyph (arc) or
\* line (straight) is drawn, only the failing stroke is missing, and imageUrl
\* is the encoded canvas.
C6_StrokeFailureSkipped ==
    (Rendered /\ lastOp.raised = "strokeText") =>
        /\ imageUrl = toDataURL(canvas)
        /\ canvas.mode = "arc" =>
              /\ Len(canvas.glyphs) = Len(lastOp.p)
              /\ canvas.strokes = Len(lastOp.p) - 1
        /\ canvas.mode = "straight" =>
              /\ Len(canvas.lines) = Len(WrapLines(canvas.metrics, lastOp.p))
              /\ canvas.strokes = Len(canvas.lines) - 1

RenderTimers(ts) == SelectSeq(ts, LAMBDA t : t.kind = "render")

\* C7: a call of generateImage with an empty or whitespace-only prompt
\* schedules no timer and leaves the canvas, loading and imageUrl as they
\* were.
C7_BlankPromptNoEffect ==
    [][(lastOp'.gen /\ Trim(lastOp'.p) = <<>>) =>
          /\ RenderTimers(timers') = RenderTimers(timers)
          /\ Len(timers') <= Len(timers)
          /\ UNCHANGED <<canvas, loading, imageUrl>>]_vars

\* generateImage was just called with a blank prompt while an image is shown.
C7_Witness ==
    /\ lastOp.gen
    /\ Trim(lastOp.p) = <<>>
    /\ imageUrl # <<>>

\* The fallback of a degenerate measurement: the string drawn once, centered,
\* no angle computed.
SingleRun(text) ==
    /\ Len(canvas.glyphs) = 1
    /\ canvas.glyphs[1].ch = text
    /\ canvas.glyphs[1].angle = I2R(0)
    /\ canvas.glyphs[1].radius = I2R(0)

\* C8: in arc mode, sumWidth <= 0 takes the single-run fallback, and no
\* radius or placement angle is NaN or infinite.
C8_DegenerateFallback ==
    (Rendered /\ canvas.mode = "arc") =>
        /\ RLe(canvas.sumWidth, I2R(0)) => SingleRun(lastOp.p)
        /\ IsFinite(canvas.radius)
        /\ \A i \in 1..Len(canvas.glyphs) : IsFinite(canvas.glyphs[i].angle)

\* C9: the outline and the shadow are both black when avgL > 55 and both
\* white when avgL <= 55.
C9_OutlineShadowPolarity ==
    (Rendered /\ canvas.bg # <<>>) =>
        /\ AvgLx2 > 110 =>
              /\ canvas.strokeStyle = "rgba(0,0,0,0.45)"
              /\ canvas.shadowColor = "rgba(0,0,0,0.35)"
        /\ AvgLx2 <= 110 =>
              /\ canvas.strokeStyle = "rgba(255,255,255,0.45)"
              /\ canvas.shadowColor = "rgba(255,255,255,0.25)"

\* C10: while loading is true a timer is pending (the one whose callback, or
\* the render it schedules, sets loading to false).
C10_LoadingHasPendingTimer == loading => timers # <<>>

=============================================================================
